---- MODULE Spec2Model ----
(***************************************************************************)
(* A model of notare-monitor (src/src/index.ts): the Monitor, a Readable   *)
(* object stream that samples process metrics on a timer, with its         *)
(* HandleTracker (async_hooks) and GCTracker (PerformanceObserver).        *)
(*                                                                         *)
(* JavaScript runs every callback to completion, so each constructor call, *)
(* timer callback, hook callback and stream call is one atomic action.     *)
(***************************************************************************)
EXTENDS Integers, Sequences, FiniteSets, TLC

VARIABLES
  env,           \* process.env, read once when the module is loaded
  hasELD,        \* whether perf_hooks exports monitorEventLoopDelay
  now,           \* process.hrtime.bigint(), nanoseconds
  cpuTime,       \* cumulative process CPU time [user, system], microseconds
  phase,         \* "new" | "running" | "failed" | "stopped"
  thrown,        \* the error the constructor, ref() or unref() threw,
                 \* "" if none
  options,       \* Monitor.#options
  timer,         \* Monitor.#timer: None or Some([delay, hasRef])
  elmonitor,     \* Monitor.#elmonitor: None or Some([resolution, enabled])
  lastTS,        \* Monitor.#lastTS
  lastCPUUsage,  \* Monitor.#lastCPUUsage: None or Some([user, system])
  handles,       \* Monitor.#handles: None or Some(HandleTracker)
  gc,            \* Monitor.#gc: None or Some(GCTracker)
  stream,        \* the Readable's state [buffer, ended, destroyed, errored]
  published,     \* history: every chunk the stream accepted, in order
  hist           \* history: the constructor's argument, counters and
                 \* checkpoints the properties refer to

vars == <<env, hasELD, now, cpuTime, phase, thrown, options, timer, elmonitor,
          lastTS, lastCPUUsage, handles, gc, stream, published, hist>>

(***************************************************************************)
(* Bounds of the model.                                                    *)
(***************************************************************************)
MaxTicks == 2
MaxCpuTicks == 3
MaxStreamTicks == 18
MaxEvents == 3

(***************************************************************************)
(* Optional values: None is JavaScript's undefined for a private field.    *)
(***************************************************************************)
None == <<>>
Some(v) == <<v>>
IsSome(o) == o # <<>>
Get(o) == o[1]

(***************************************************************************)
(* JavaScript values as they reach the constructor.  A number is kept as   *)
(* twice its value (x2) so that 1.5 is representable; NaN is a number.     *)
(* Absent is a property the options object does not have.                  *)
(***************************************************************************)
Undefined == [t |-> "undefined"]
Absent == [t |-> "absent"]
Null == [t |-> "null"]
NaN == [t |-> "number", nan |-> TRUE, x2 |-> 0]
Num(x2) == [t |-> "number", nan |-> FALSE, x2 |-> x2]
IntNum(n) == Num(2 * n)
Str(s) == [t |-> "string", s |-> s]
Bool(b) == [t |-> "boolean", b |-> b]
Obj(hz, h, g) == [t |-> "object", hz |-> hz, handles |-> h, gc |-> g]

TypeOf(v) ==
  CASE v.t = "absent" -> "undefined"
    [] v.t = "null" -> "object"
    [] OTHER -> v.t

IsUndefined(v) == v.t \in {"undefined", "absent"}

Truthy(v) ==
  CASE v.t = "number" -> ~v.nan /\ v.x2 # 0
    [] v.t = "string" -> v.s # ""
    [] v.t = "boolean" -> v.b
    [] v.t = "object" -> TRUE
    [] OTHER -> FALSE

\* v < n and v > n for a number v and an integer n; false when v is NaN.
NumLt(v, n) == ~v.nan /\ v.x2 < 2 * n
NumGt(v, n) == ~v.nan /\ v.x2 > 2 * n

(***************************************************************************)
(* parseInt of a string given as a sequence of characters: an optional     *)
(* sign, then the longest prefix of decimal digits; NaN when there is none.*)
(***************************************************************************)
Digits == <<"0", "1", "2", "3", "4", "5", "6", "7", "8", "9">>
IsDigit(c) == \E i \in 1..10 : Digits[i] = c
DigitVal(c) == (CHOOSE i \in 1..10 : Digits[i] = c) - 1

RECURSIVE DigitsValue(_, _, _)
DigitsValue(s, i, acc) ==
  IF i > Len(s) \/ ~IsDigit(s[i]) THEN acc
  ELSE DigitsValue(s, i + 1, 10 * acc + DigitVal(s[i]))

ParseInt(s) ==
  LET neg == Len(s) > 0 /\ s[1] = "-"
      start == IF Len(s) > 0 /\ s[1] \in {"-", "+"} THEN 2 ELSE 1
  IN IF start > Len(s) \/ ~IsDigit(s[start]) THEN NaN
     ELSE LET n == DigitsValue(s, start, 0)
          IN IntNum(IF neg THEN 0 - n ELSE n)

\* An environment variable is None (unset) or Some(characters).
EnvStr(e) == IF IsSome(e) /\ Len(Get(e)) > 0 THEN Get(e) ELSE <<"0">>

kDefaultMonitorOptions ==
  LET parsed == ParseInt(EnvStr(env.NOTARE_HZ))
  IN [hz |-> IF Truthy(parsed) THEN parsed ELSE IntNum(2),
      handles |-> Bool(env.NOTARE_HANDLES = Some(<<"1">>)),
      gc |-> Bool(env.NOTARE_GC = Some(<<"1">>))]

(***************************************************************************)
(* The Readable (stream.Readable in object mode, which Monitor extends).   *)
(* push(chunk) always buffers a chunk while the stream is neither ended    *)
(* nor destroyed; its return value only reports whether the buffer is      *)
(* below the high-water mark, which is 16 objects in object mode.          *)
(***************************************************************************)
HighWaterMark == 16
EOF == [kind |-> "eof"]

NewReadable == [buffer |-> <<>>, ended |-> FALSE, destroyed |-> FALSE,
                errored |-> FALSE]

\* The value push() returns.
PushReturn(s) ==
  ~s.ended /\ (Len(s.buffer) < HighWaterMark \/ Len(s.buffer) = 0)

\* push(chunk): the stream after the call, whether the chunk was accepted
\* and the value returned.
ReadablePush(s, chunk) ==
  LET s2 == CASE chunk = EOF -> [s EXCEPT !.ended = TRUE]
              [] chunk # EOF /\ s.ended -> [s EXCEPT !.errored = TRUE]
              [] chunk # EOF /\ ~s.ended /\ s.destroyed -> s
              [] OTHER -> [s EXCEPT !.buffer = Append(@, chunk)]
      acc == IF chunk = EOF THEN ~s.ended ELSE ~s.ended /\ ~s.destroyed
  IN [stream |-> s2, accepted |-> acc, ret |-> PushReturn(s2)]

(***************************************************************************)
(* Numbers that are not integers are kept as fractions n/d in lowest       *)
(* terms; d = 0 is what a division by zero gives.                          *)
(***************************************************************************)
Abs(x) == IF x < 0 THEN 0 - x ELSE x

RECURSIVE GCD(_, _)
GCD(a, b) == IF b = 0 THEN a ELSE GCD(b, a % b)

Gcd1(a, b) == IF a = 0 /\ b = 0 THEN 1 ELSE GCD(Abs(a), Abs(b))

Rat(n, d) == LET g == Gcd1(n, d) IN [n |-> n \div g, d |-> d \div g]

\* a / b, reduced crosswise before multiplying.
RatDiv(a, b) ==
  LET g1 == Gcd1(a.n, b.n)
      g2 == Gcd1(a.d, b.d)
  IN Rat((a.n \div g1) * (b.d \div g2), (a.d \div g2) * (b.n \div g1))

\* BigInt.prototype.toString of a non-negative value, as characters.
RECURSIVE ToDigits(_)
ToDigits(n) ==
  IF n < 10 THEN <<Digits[n + 1]>>
  ELSE Append(ToDigits(n \div 10), Digits[(n % 10) + 1])

BigIntToString(n) == IF n < 0 THEN <<"-">> \o ToDigits(0 - n) ELSE ToDigits(n)

\* process.cpuUsage(previousValue): the difference from previousValue when
\* one is given, the cumulative usage otherwise.
CpuUsage(cur, prev) ==
  IF IsSome(prev)
  THEN [user |-> cur.user - Get(prev).user,
        system |-> cur.system - Get(prev).system]
  ELSE cur

\* Monitor._cpupct at time clock: the value returned and the two fields it
\* assigns.
Cpupct(clock, ts, lcu, cur) ==
  LET elapsed == Rat(ParseInt(BigIntToString(clock - ts)).x2 \div 2, 1000000)
      usage == CpuUsage(cur, lcu)
      total == Rat(usage.user + usage.system, 1000000)
  IN [cpu |-> RatDiv(total, elapsed),
      lastCPUUsage |-> Some(usage),
      lastTS |-> clock]

(***************************************************************************)
(* HandleTracker.  #types is a map from async id to type; #counts is a Map *)
(* from type to count, kept here in insertion order (the order forEach     *)
(* visits it) as a sequence of entries [k, v].                             *)
(***************************************************************************)
EmptyMap == [x \in {} |-> 0]
MapSet(m, k, v) == [x \in DOMAIN m \cup {k} |-> IF x = k THEN v ELSE m[x]]
MapDelete(m, k) == [x \in DOMAIN m \ {k} |-> m[x]]

CountsHas(c, k) == \E i \in 1..Len(c) : c[i].k = k
CountsGet(c, k) == c[CHOOSE i \in 1..Len(c) : c[i].k = k].v
CountsSet(c, k, v) ==
  IF CountsHas(c, k)
  THEN [i \in 1..Len(c) |-> IF c[i].k = k THEN [k |-> k, v |-> v] ELSE c[i]]
  ELSE Append(c, [k |-> k, v |-> v])
CountsDelete(c, k) == SelectSeq(c, LAMBDA e : e.k # k)

NewHandleTracker == [types |-> EmptyMap, counts |-> <<>>, enabled |-> TRUE]

\* A tracker whose init callback forgets the count a type already has.
TrackerInitResets(tr, id, type) ==
  [tr EXCEPT !.types = MapSet(@, id, type),
             !.counts = CountsSet(@, type, 1)]

\* The hook's init(id, type) callback.
TrackerInit(tr, id, type) ==
  [tr EXCEPT
     !.types = MapSet(@, id, type),
     !.counts = IF ~CountsHas(@, type) THEN CountsSet(@, type, 1)
                ELSE CountsSet(@, type, CountsGet(@, type) + 1)]

\* A destroy callback that keeps the entry of a type whose count reached 0.
TrackerDestroyKeepsZero(tr, id) ==
  IF id \in DOMAIN tr.types
  THEN LET type == tr.types[id]
       IN [tr EXCEPT
             !.types = MapDelete(@, id),
             !.counts = CountsSet(@, type, CountsGet(@, type) - 1)]
  ELSE [tr EXCEPT !.types = MapDelete(@, id)]

\* A destroy callback without the `type !== undefined` guard: for an id it
\* does not know it stores a count under the key undefined.
TrackerDestroyUnguarded(tr, id) ==
  IF id \in DOMAIN tr.types
  THEN LET type == tr.types[id]
           c1 == CountsSet(tr.counts, type, CountsGet(tr.counts, type) - 1)
       IN [tr EXCEPT
             !.types = MapDelete(@, id),
             !.counts = IF CountsGet(c1, type) = 0
                        THEN CountsDelete(c1, type) ELSE c1]
  ELSE [tr EXCEPT !.counts = CountsSet(@, "undefined", 0)]

\* The hook's destroy(id) callback.
TrackerDestroy(tr, id) ==
  IF id \in DOMAIN tr.types
  THEN LET type == tr.types[id]
           c1 == CountsSet(tr.counts, type, CountsGet(tr.counts, type) - 1)
       IN [tr EXCEPT
             !.types = MapDelete(@, id),
             !.counts = IF CountsGet(c1, type) = 0
                        THEN CountsDelete(c1, type) ELSE c1]
  ELSE [tr EXCEPT !.types = MapDelete(@, id)]

\* The types the counts getter takes one off.
ReservedTypes == {"UDPWRAP", "Timeout", "ELDHISTOGRAM"}

\* A counts getter that takes nothing off the reserved types.
TrackerCountsUnfiltered(tr) ==
  LET c == tr.counts
  IN [titles |-> [i \in 1..Len(c) |-> c[i].k],
      data |-> [i \in 1..Len(c) |-> c[i].v]]

\* HandleTracker.counts: a fresh {titles, data} built from #counts.
TrackerCounts(tr) ==
  LET c == tr.counts
      adj == [i \in 1..Len(c) |->
                [k |-> c[i].k,
                 v |-> IF c[i].k \in ReservedTypes THEN c[i].v - 1 ELSE c[i].v]]
      kept == SelectSeq(adj, LAMBDA e : e.v > 0)
  IN [titles |-> [i \in 1..Len(kept) |-> kept[i].k],
      data |-> [i \in 1..Len(kept) |-> kept[i].v]]

\* A counts getter that stores what it takes off the reserved types.
TrackerCountsWrittenBack(tr) ==
  [tr EXCEPT !.counts =
     [i \in 1..Len(@) |->
        IF @[i].k \in ReservedTypes
        THEN [k |-> @[i].k, v |-> @[i].v - 1] ELSE @[i]]]

\* The tracker after its counts getter has run: value-- decrements the
\* callback's parameter, and the getter calls no set or delete.
TrackerAfterCounts(tr) == tr

\* A tracker whose destroy() leaves the hook enabled.
TrackerStaysEnabled(tr) == tr

\* HandleTracker.destroy
TrackerDisable(tr) == [tr EXCEPT !.enabled = FALSE]

(***************************************************************************)
(* GCTracker.  #duration stands for the histogram: the recorded values, in *)
(* ascending order.  The observer is never disconnected.                   *)
(***************************************************************************)
NewGCTracker == [duration |-> <<>>, scavenges |-> 0, sweeps |-> 0,
                 incremental |-> 0, weakcbs |-> 0]

RECURSIVE SortedInsert(_, _)
SortedInsert(q, v) ==
  IF q = <<>> THEN <<v>>
  ELSE IF v <= Head(q) THEN <<v>> \o q
  ELSE <<Head(q)>> \o SortedInsert(Tail(q), v)

\* An observer callback that counts per notification: it starts the four
\* counters again from zero each time it is called.
GCObserveCountsPerCall(g, entry) ==
  LET g1 == [g EXCEPT !.duration = SortedInsert(@, entry.duration),
                      !.scavenges = 0, !.sweeps = 0,
                      !.incremental = 0, !.weakcbs = 0]
  IN CASE entry.kind = 0 -> [g1 EXCEPT !.scavenges = 1]
       [] entry.kind = 1 -> [g1 EXCEPT !.sweeps = 1]
       [] entry.kind = 2 -> [g1 EXCEPT !.incremental = 1]
       [] entry.kind = 3 -> [g1 EXCEPT !.weakcbs = 1]
       [] OTHER -> g1

\* The observer's callback for one entry [kind, duration].
GCObserve(g, entry) ==
  LET g1 == [g EXCEPT !.duration = SortedInsert(@, entry.duration)]
  IN CASE entry.kind = 0 -> [g1 EXCEPT !.scavenges = @ + 1]
       [] entry.kind = 1 -> [g1 EXCEPT !.sweeps = @ + 1]
       [] entry.kind = 2 -> [g1 EXCEPT !.incremental = @ + 1]
       [] entry.kind = 3 -> [g1 EXCEPT !.weakcbs = @ + 1]
       [] OTHER -> g1

\* GCTracker.sample
GCSample(g) ==
  [scavenges |-> g.scavenges, sweeps |-> g.sweeps,
   incremental |-> g.incremental, weakcbs |-> g.weakcbs,
   duration |-> g.duration]

(***************************************************************************)
(* Monitor._sample.  A Sample's fields read from the host (pid, memory,    *)
(* cpus, ...) are tokens; seq is a history field, the number of the        *)
(* _sample call that assembled the Sample.                                 *)
(***************************************************************************)
SampleFields == {"kind", "seq", "pid", "threadId", "isMainThread", "memory",
                 "cpu", "cpus", "loadAvg", "eventLoop", "handles", "gc",
                 "loopUtilization"}

MakeSample(seq, cpu, h, el, g) ==
  [kind |-> "sample", seq |-> seq,
   pid |-> "pid", threadId |-> "threadId", isMainThread |-> "isMainThread",
   memory |-> "memory", cpu |-> cpu, cpus |-> "cpus", loadAvg |-> "loadAvg",
   eventLoop |-> IF IsSome(el) THEN Some("eventLoop") ELSE None,
   handles |-> IF IsSome(h) THEN Some(TrackerCounts(Get(h))) ELSE None,
   gc |-> IF IsSome(g) THEN Some(GCSample(Get(g))) ELSE None,
   loopUtilization |-> "loopUtilization"]

\* _sample called by caller `by` at time clock with #lastTS = ts: what it
\* assigns, what reading the tracker's counts leaves of the tracker, and
\* what the push does to the stream.  calls and marks are
\* history: the number of _sample calls so far, and for each call the clock,
\* the cumulative CPU time, the caller and whether the timer was armed.
MonitorSample(clock, ts, by) ==
  LET c == Cpupct(clock, ts, lastCPUUsage, cpuTime)
      smp == MakeSample(hist.sampleCalls + 1, c.cpu, handles, elmonitor, gc)
      p == ReadablePush(stream, smp)
  IN [stream |-> p.stream,
      published |-> IF p.accepted THEN Append(published, smp) ELSE published,
      lastTS |-> c.lastTS,
      lastCPUUsage |-> c.lastCPUUsage,
      handles |-> IF IsSome(handles)
                  THEN Some(TrackerAfterCounts(Get(handles))) ELSE None,
      ret |-> p.ret,
      calls |-> hist.sampleCalls + 1,
      marks |-> Append(hist.marks, [now |-> clock, cpu |-> cpuTime,
                                    by |-> by, armed |-> IsSome(timer)])]

(***************************************************************************)
(* The constructor.                                                        *)
(***************************************************************************)
EmptyOptions == Obj(Absent, Absent, Absent)

\* The time, in nanoseconds, the constructor may take between setting
\* #lastTS and reading the clock in its first _sample.
CtorGaps == {1000}

\* The parameter default: options = {} when the argument is undefined.
ArgOptions(o) == IF o.t = "undefined" THEN EmptyOptions ELSE o

\* The constructor's checks: the error thrown, "" when there is none.
Validate(o) ==
  IF TypeOf(o) # "object" \/ o = Null THEN "TypeError"
  ELSE IF ~IsUndefined(o.hz) /\ TypeOf(o.hz) # "number" THEN "TypeError"
  ELSE IF ~IsUndefined(o.hz) /\ (NumLt(o.hz, 1) \/ NumGt(o.hz, 1000))
       THEN "RangeError"
  ELSE IF ~IsUndefined(o.handles) /\ TypeOf(o.handles) # "boolean"
       THEN "TypeError"
  ELSE ""

\* { ...kDefaultMonitorOptions, ...options }: every property options has,
\* undefined ones included, replaces the default.
MergeOptions(d, o) ==
  [hz |-> IF o.hz = Absent THEN d.hz ELSE o.hz,
   handles |-> IF o.handles = Absent THEN d.handles ELSE o.handles,
   gc |-> IF o.gc = Absent THEN d.gc ELSE o.gc]

\* Math.floor(a / b) for integers a and b # 0.
FloorDiv(a, b) == IF b > 0 THEN a \div b ELSE (0 - a) \div (0 - b)

\* Math.floor(1000 / (this.#options.hz || kDefaultMonitorOptions.hz))
Delay(opts) ==
  LET hz == IF Truthy(opts.hz) THEN opts.hz ELSE kDefaultMonitorOptions.hz
  IN FloorDiv(2000, hz.x2)

\* A constructor that arms the timer without sampling first.
FirstSampleMissing(dt) ==
  [stream |-> stream, published |-> published, lastTS |-> now,
   lastCPUUsage |-> lastCPUUsage, handles |-> handles, ret |-> TRUE,
   calls |-> hist.sampleCalls, marks |-> hist.marks]

\* The constructor's immediate this._sample(): the clock has moved on by dt
\* since #lastTS was set two statements earlier.
FirstSample(dt) == MonitorSample(now + dt, now, "constructor")

\* monitorEventLoopDelay({ resolution }) throws a RangeError unless the
\* resolution is a positive integer.
ELDThrows(resolution) == resolution <= 0

Construct(o) ==
  /\ phase = "new"
  /\ LET a == ArgOptions(o)
         err == Validate(a)
     IN IF err # ""
        THEN /\ phase' = "failed"
             /\ thrown' = err
             /\ hist' = [hist EXCEPT !.arg = Some(o)]
             /\ UNCHANGED <<now, options, timer, elmonitor, lastTS,
                            lastCPUUsage, handles, gc, stream, published>>
        ELSE \E dt \in CtorGaps :
             LET opts == MergeOptions(kDefaultMonitorOptions, a)
                 delay == Delay(opts)
                 r == FirstSample(dt)
                 fails == hasELD /\ ELDThrows(delay)
             IN /\ now' = now + dt
                /\ options' = Some(opts)
                /\ lastTS' = r.lastTS
                /\ lastCPUUsage' = r.lastCPUUsage
                /\ stream' = r.stream
                /\ published' = r.published
                /\ hist' = [hist EXCEPT !.arg = Some(o),
                                        !.sampleCalls = r.calls,
                                        !.lastRet = r.ret,
                                        !.marks = r.marks]
                /\ timer' = Some([delay |-> delay, hasRef |-> fails])
                /\ elmonitor' = IF hasELD /\ ~fails
                                THEN Some([resolution |-> delay,
                                           enabled |-> TRUE])
                                ELSE None
                /\ handles' = IF ~fails /\ Truthy(opts.handles)
                              THEN Some(NewHandleTracker) ELSE None
                /\ gc' = IF ~fails /\ Truthy(opts.gc)
                         THEN Some(NewGCTracker) ELSE None
                /\ phase' = IF fails THEN "failed" ELSE "running"
                /\ thrown' = IF fails THEN "RangeError" ELSE ""
  /\ UNCHANGED <<env, hasELD, cpuTime>>

(***************************************************************************)
(* The timer's callback, () => this._sample().  The interval timer fires   *)
(* while it is armed; the clock has moved on by dt since the last call.    *)
(***************************************************************************)
Tick(limit, gaps) ==
  /\ IsSome(timer)
  /\ hist.timerFired < limit
  /\ \E dt \in gaps :
       LET r == MonitorSample(now + dt, lastTS, "timer")
       IN /\ now' = now + dt
          /\ lastTS' = r.lastTS
          /\ lastCPUUsage' = r.lastCPUUsage
          /\ stream' = r.stream
          /\ published' = r.published
          /\ handles' = r.handles
          /\ hist' = [hist EXCEPT !.sampleCalls = r.calls,
                                  !.timerFired = @ + 1,
                                  !.lastRet = r.ret,
                                  !.marks = r.marks]
  /\ UNCHANGED <<env, hasELD, cpuTime, phase, thrown, options, timer,
                 elmonitor, gc>>

(***************************************************************************)
(* Monitor._destroy, called by Readable.destroy() once the stream is       *)
(* marked destroyed.                                                       *)
(***************************************************************************)
MonitorDestroyKeepsTimer ==
  LET p == ReadablePush([stream EXCEPT !.destroyed = TRUE], EOF)
  IN /\ stream' = p.stream
     /\ published' = IF p.accepted THEN Append(published, EOF) ELSE published
     /\ elmonitor' = IF IsSome(elmonitor)
                     THEN Some([Get(elmonitor) EXCEPT !.enabled = FALSE])
                     ELSE None
     /\ handles' = IF IsSome(handles)
                   THEN Some(TrackerDisable(Get(handles))) ELSE None
     /\ timer' = timer

MonitorDestroy ==
  LET p == ReadablePush([stream EXCEPT !.destroyed = TRUE], EOF)
  IN /\ stream' = p.stream
     /\ published' = IF p.accepted THEN Append(published, EOF) ELSE published
     /\ elmonitor' = IF IsSome(elmonitor)
                     THEN Some([Get(elmonitor) EXCEPT !.enabled = FALSE])
                     ELSE None
     /\ handles' = IF IsSome(handles)
                   THEN Some(TrackerDisable(Get(handles))) ELSE None
     /\ timer' = None

\* destroy() on a constructed Monitor; a second call does nothing.
Destroy ==
  /\ phase \in {"running", "stopped"}
  /\ IF stream.destroyed
     THEN UNCHANGED <<stream, published, elmonitor, handles, timer, phase,
                      hist>>
     ELSE /\ MonitorDestroy
          /\ phase' = "stopped"
          /\ hist' = [hist EXCEPT !.callsAtStop = hist.sampleCalls]
  /\ UNCHANGED <<env, hasELD, now, cpuTime, thrown, options, lastTS,
                 lastCPUUsage, gc>>

\* ref() and unref(): this.#timer.ref() and this.#timer.unref(), with no
\* check of #timer.  On the timer they set whether it keeps the process
\* alive; once _destroy has set #timer to undefined the property access
\* throws a TypeError.
Ref ==
  /\ phase \in {"running", "stopped"}
  /\ IF IsSome(timer)
     THEN /\ timer' = Some([Get(timer) EXCEPT !.hasRef = TRUE])
          /\ thrown' = thrown
     ELSE /\ timer' = timer
          /\ thrown' = "TypeError"
  /\ UNCHANGED <<env, hasELD, now, cpuTime, phase, options, elmonitor,
                 lastTS, lastCPUUsage, handles, gc, stream, published, hist>>

Unref ==
  /\ phase \in {"running", "stopped"}
  /\ IF IsSome(timer)
     THEN /\ timer' = Some([Get(timer) EXCEPT !.hasRef = FALSE])
          /\ thrown' = thrown
     ELSE /\ timer' = timer
          /\ thrown' = "TypeError"
  /\ UNCHANGED <<env, hasELD, now, cpuTime, phase, options, elmonitor,
                 lastTS, lastCPUUsage, handles, gc, stream, published, hist>>

\* The consumer takes one Sample out of the buffer (read(), or a 'data'
\* event in flowing mode); _read does nothing.
Read ==
  /\ ~stream.destroyed
  /\ Len(stream.buffer) > 0
  /\ stream' = [stream EXCEPT !.buffer = Tail(@)]
  /\ hist' = [hist EXCEPT !.consumed = @ + 1]
  /\ UNCHANGED <<env, hasELD, now, cpuTime, phase, thrown, options, timer,
                 elmonitor, lastTS, lastCPUUsage, handles, gc, published>>

(***************************************************************************)
(* The event sources.  async_hooks delivers init and destroy to the hook   *)
(* while it is enabled; the PerformanceObserver delivers GC entries from   *)
(* the GCTracker's construction on.  hist.live is the history of the ids   *)
(* announced to the hook and not yet destroyed; hist.reused records that   *)
(* an id was announced again while still live.                             *)
(***************************************************************************)
MaxIds == 2
Ids == 1..MaxIds
Types == {"TCPWRAP", "Timeout"}
GCKinds == {0, 1, 2, 3, 4}
GCDurations == {1}

HookInit(id, type) ==
  /\ IsSome(handles)
  /\ Get(handles).enabled
  /\ hist.events < MaxEvents
  /\ handles' = Some(TrackerInit(Get(handles), id, type))
  /\ hist' = [hist EXCEPT !.events = @ + 1,
                          !.live = MapSet(@, id, type),
                          !.reused = @ \/ id \in DOMAIN hist.live]
  /\ UNCHANGED <<env, hasELD, now, cpuTime, phase, thrown, options, timer,
                 elmonitor, lastTS, lastCPUUsage, gc, stream, published>>

HookDestroy(id) ==
  /\ IsSome(handles)
  /\ Get(handles).enabled
  /\ hist.events < MaxEvents
  /\ handles' = Some(TrackerDestroy(Get(handles), id))
  /\ hist' = [hist EXCEPT !.events = @ + 1,
                          !.live = MapDelete(@, id),
                          !.unknownDestroys =
                             IF id \in DOMAIN hist.live THEN @ ELSE @ + 1]
  /\ UNCHANGED <<env, hasELD, now, cpuTime, phase, thrown, options, timer,
                 elmonitor, lastTS, lastCPUUsage, gc, stream, published>>

GCEvent(kind, duration) ==
  /\ IsSome(gc)
  /\ hist.events < MaxEvents
  /\ gc' = Some(GCObserve(Get(gc), [kind |-> kind, duration |-> duration]))
  /\ hist' = [hist EXCEPT !.events = @ + 1, !.gcEvents = @ + 1]
  /\ UNCHANGED <<env, hasELD, now, cpuTime, phase, thrown, options, timer,
                 elmonitor, lastTS, lastCPUUsage, handles, stream, published>>

\* The process consumes CPU time, in user or in system mode.
MaxBurns == 3
BurnSteps == {500}

Burn ==
  /\ hist.burns < MaxBurns
  /\ \E m \in {"user", "system"}, d \in BurnSteps :
       cpuTime' = [cpuTime EXCEPT ![m] = @ + d]
  /\ hist' = [hist EXCEPT !.burns = @ + 1]
  /\ UNCHANGED <<env, hasELD, now, phase, thrown, options, timer, elmonitor,
                 lastTS, lastCPUUsage, handles, gc, stream, published>>

(***************************************************************************)
(* Initial states: the module is loaded, no Monitor is constructed yet.    *)
(***************************************************************************)
EnvUnset == [NOTARE_HZ |-> None, NOTARE_HANDLES |-> None, NOTARE_GC |-> None]

InitHist == [arg |-> None, sampleCalls |-> 0, timerFired |-> 0,
             lastRet |-> TRUE, consumed |-> 0, events |-> 0, gcEvents |-> 0,
             unknownDestroys |-> 0, callsAtStop |-> 0, live |-> EmptyMap,
             reused |-> FALSE, burns |-> 0, marks |-> <<>>]

InitWith(envs, elds, cpus) ==
  /\ env \in envs
  /\ hasELD \in elds
  /\ now = 0
  /\ cpuTime \in cpus
  /\ phase = "new"
  /\ thrown = ""
  /\ options = None
  /\ timer = None
  /\ elmonitor = None
  /\ lastTS = 0
  /\ lastCPUUsage = None
  /\ handles = None
  /\ gc = None
  /\ stream = NewReadable
  /\ published = <<>>
  /\ hist = InitHist

NoCpu == [user |-> 0, system |-> 0]
TickGaps == {1000000}

(***************************************************************************)
(* Spec: one Monitor's life with its trackers on or off, under resource    *)
(* and GC events.                                                          *)
(***************************************************************************)
LifeOptions == {Obj(IntNum(1000), Bool(h), Bool(g)) : h \in BOOLEAN, g \in BOOLEAN}

Init == InitWith({EnvUnset}, {TRUE}, {NoCpu})

Next ==
  \/ \E o \in LifeOptions : Construct(o)
  \/ Tick(MaxTicks, TickGaps)
  \/ Destroy
  \/ \E id \in Ids, type \in Types : HookInit(id, type)
  \/ \E id \in Ids : HookDestroy(id)
  \/ \E kind \in GCKinds, duration \in GCDurations : GCEvent(kind, duration)

Spec == Init /\ [][Next]_vars

(***************************************************************************)
(* SpecStream: a Monitor with default options and a consumer that reads at *)
(* its own pace, long enough for the buffer to pass the high-water mark.   *)
(***************************************************************************)
InitStream == InitWith({EnvUnset}, {TRUE}, {NoCpu})

NextStream ==
  \/ Construct(Undefined)
  \/ Tick(MaxStreamTicks, TickGaps)
  \/ Read
  \/ Destroy

SpecStream == InitStream /\ [][NextStream]_vars

(***************************************************************************)
(* SpecConfig: construction under every kind of argument and environment,  *)
(* on platforms with and without monitorEventLoopDelay.                    *)
(***************************************************************************)
ConfigHz == {Absent, Undefined, IntNum(0), IntNum(1), Num(3), IntNum(10),
             IntNum(1000), Num(2001), IntNum(1001), IntNum(0 - 1), NaN,
             Str("10")}
ConfigFlags == {Absent, Undefined, Bool(TRUE), Bool(FALSE), Str("yes")}
ConfigArgs ==
  {Undefined, Null, Str("fast")}
    \cup {Obj(hz, h, g) : hz \in ConfigHz, h \in ConfigFlags, g \in ConfigFlags}

ConfigEnvs ==
  [NOTARE_HZ : {None, Some(<<>>), Some(<<"1", "0">>),
                Some(<<"5", "0", "0", "0">>), Some(<<"-", "5">>),
                Some(<<"a", "b", "c">>)},
   NOTARE_HANDLES : {None, Some(<<"1">>)},
   NOTARE_GC : {None, Some(<<"1">>)}]

InitConfig == InitWith(ConfigEnvs, BOOLEAN, {NoCpu})

NextConfig ==
  \/ \E o \in ConfigArgs : Construct(o)
  \/ Tick(MaxTicks, TickGaps)
  \/ Destroy

SpecConfig == InitConfig /\ [][NextConfig]_vars

(***************************************************************************)
(* SpecCpu: a Monitor sampling while the process consumes CPU time and the *)
(* timer fires on time or late.                                            *)
(***************************************************************************)
CpuGaps == {1000000, 2000000}
CpuArg == Obj(IntNum(1000), Absent, Absent)

InitCpu == InitWith({EnvUnset}, {TRUE},
                    {NoCpu, [user |-> 1000, system |-> 500]})

NextCpu ==
  \/ Construct(CpuArg)
  \/ Tick(MaxCpuTicks, CpuGaps)
  \/ Burn

SpecCpu == InitCpu /\ [][NextCpu]_vars

(***************************************************************************)
(* SpecRef: one Monitor's life under resource and GC events, with the      *)
(* owner calling ref() and unref() at any time after construction.         *)
(***************************************************************************)
InitRef == InitWith({EnvUnset}, {TRUE}, {NoCpu})

NextRef ==
  \/ \E o \in LifeOptions : Construct(o)
  \/ Tick(MaxTicks, TickGaps)
  \/ Destroy
  \/ \E id \in Ids, type \in Types : HookInit(id, type)
  \/ \E kind \in GCKinds, duration \in GCDurations : GCEvent(kind, duration)
  \/ Ref
  \/ Unref

SpecRef == InitRef /\ [][NextRef]_vars

(***************************************************************************)
(* Properties.                                                             *)
(***************************************************************************)
Samples == {i \in 1..Len(published) : published[i].kind = "sample"}

\* C1: backpressure.  Once a push has reported that the consumer is not
\* ready, no tick publishes until the consumer reads, so the Samples
\* published and not yet consumed never exceed the stream's buffer limit.
C1_BacklogBounded == Len(stream.buffer) <= HighWaterMark

\* C2: a stopped Monitor has published Samples, each complete, followed by
\* exactly one end-of-stream marker; nothing is published after the marker,
\* the marker is published only by the stop, and _sample is not called
\* again (the timer is cancelled) once the Monitor is stopped.
C2_StopEndsStream ==
  /\ \A i \in Samples : DOMAIN published[i] = SampleFields
  /\ ~stream.destroyed => Samples = 1..Len(published)
  /\ stream.destroyed =>
       /\ Len(published) >= 1
       /\ published[Len(published)] = EOF
       /\ Samples = 1..(Len(published) - 1)
  /\ phase = "stopped" =>
       /\ stream.destroyed
       /\ timer = None
       /\ hist.sampleCalls = hist.callsAtStop

\* C2's case: a Monitor stopped after timer ticks, resource events and GC
\* events.
C2_Witness ==
  /\ phase = "stopped"
  /\ hist.timerFired >= 2
  /\ hist.gcEvents >= 1
  /\ hist.events > hist.gcEvents
  /\ Len(published) = hist.timerFired + 2

\* C3: with resource tracking enabled, every published Sample, the first
\* included, has the resources field, with positive counts only.
C3_ResourcesInEverySample ==
  (IsSome(options) /\ Truthy(Get(options).handles)) =>
    \A i \in Samples :
      /\ IsSome(published[i].handles)
      /\ \A j \in 1..Len(Get(published[i].handles).data) :
           Get(published[i].handles).data[j] > 0

\* The explicit sample rate of the constructor's argument, if it has one.
HasExplicitHz ==
  /\ IsSome(hist.arg)
  /\ Get(hist.arg).t = "object"
  /\ ~IsUndefined(Get(hist.arg).hz)

\* README: hz is "an integer between 1 and 1000".
IsInteger(v) == v.t = "number" /\ ~v.nan /\ v.x2 % 2 = 0
ValidHz(v) == IsInteger(v) /\ ~NumLt(v, 1) /\ ~NumGt(v, 1000)

\* C4: an explicit sample rate that is not an integer in [1,1000] makes the
\* constructor fail; only such integers are accepted.
C4_RateValidated ==
  (HasExplicitHz /\ ~ValidHz(Get(hist.arg).hz)) =>
    (phase = "failed" /\ thrown \in {"TypeError", "RangeError"})

\* C5: a provided resource-tracking or GC-tracking flag that is not a
\* boolean makes the constructor fail, so that no Monitor is Running with
\* such a value in its options.
C5_FlagsValidated ==
  /\ \A f \in {"handles", "gc"} :
       (/\ IsSome(hist.arg)
        /\ Get(hist.arg).t = "object"
        /\ ~IsUndefined(Get(hist.arg)[f])
        /\ TypeOf(Get(hist.arg)[f]) # "boolean")
       => /\ phase = "failed"
          /\ thrown = "TypeError"
          /\ options = None

\* C6: a Monitor whose constructor threw has published no Sample and has no
\* timer that goes on sampling.
C6_FailedConstructionIsSilent ==
  phase = "failed" =>
    /\ published = <<>>
    /\ hist.sampleCalls = 0
    /\ timer = None

\* C7: the constructor publishes exactly one Sample, itself, before the
\* timer is armed; from then on every firing of the timer publishes exactly
\* one Sample, and the Samples are published in the order of the calls.
C7_FirstSampleThenOnePerTick ==
  phase = "running" =>
    /\ Len(published) = hist.timerFired + 1
    /\ hist.sampleCalls = hist.timerFired + 1
    /\ \A i \in 1..Len(published) :
         /\ published[i].kind = "sample"
         /\ published[i].seq = i
         /\ hist.marks[i].by = (IF i = 1 THEN "constructor" ELSE "timer")
         /\ hist.marks[i].armed = (i > 1)

\* C7's case: a Running Monitor whose timer has fired more often than the
\* buffer's high-water mark, with nothing read.
C7_Witness ==
  /\ phase = "running"
  /\ hist.timerFired > HighWaterMark
  /\ hist.consumed = 0

\* The CPU utilization C8 describes for the n-th _sample call: the CPU time
\* consumed and the time elapsed since the call before, both in seconds.
ExpectedCpu(n) ==
  LET a == hist.marks[n - 1]
      b == hist.marks[n]
  IN RatDiv(Rat((b.cpu.user + b.cpu.system) - (a.cpu.user + a.cpu.system),
                1000000),
            Rat(b.now - a.now, 1000000000))

\* C8: from the first timer tick on, a Sample's cpu is the CPU time consumed
\* since the previous tick over the time elapsed since the previous tick.
C8_CpuIsDeltaOverDelta ==
  \A i \in Samples :
    published[i].seq >= 2 => published[i].cpu = ExpectedCpu(published[i].seq)

\* The ids of type t announced to the hook and not destroyed since.
LiveOfType(t) == {id \in DOMAIN hist.live : hist.live[id] = t}

\* C9: as long as no id is announced while it is still registered, the
\* stored count of every type is the number of its live ids, a type without
\* live ids has no entry, and the snapshot of a type that is not reserved
\* shows that count.
C9_CountsMatchLiveIds ==
  (IsSome(handles) /\ ~hist.reused) =>
    LET tr == Get(handles)
        snap == TrackerCounts(tr)
    IN /\ tr.types = hist.live
       /\ \A i, j \in 1..Len(tr.counts) :
            tr.counts[i].k = tr.counts[j].k => i = j
       /\ \A i \in 1..Len(tr.counts) : tr.counts[i].k \in Types
       /\ \A t \in Types :
            /\ CountsHas(tr.counts, t) <=> LiveOfType(t) # {}
            /\ CountsHas(tr.counts, t) =>
                 CountsGet(tr.counts, t) = Cardinality(LiveOfType(t))
       /\ \A t \in Types \ ReservedTypes :
            /\ (\E i \in 1..Len(snap.titles) : snap.titles[i] = t)
                 <=> LiveOfType(t) # {}
            /\ \A i \in 1..Len(snap.titles) :
                 snap.titles[i] = t =>
                   snap.data[i] = Cardinality(LiveOfType(t))

\* C9's case: two ids of one type were created and one of them destroyed.
C9_Witness ==
  /\ IsSome(handles)
  /\ ~hist.reused
  /\ hist.events = 3
  /\ hist.gcEvents = 0
  /\ hist.unknownDestroys = 0
  /\ Get(handles).counts = <<[k |-> "TCPWRAP", v |-> 1]>>

\* C10: the destroy callback for an id that is not registered changes
\* neither the id-to-type map nor any count, and throws nothing.
C10_UnknownDestroyIsNoOp ==
  [][\A id \in Ids :
       (/\ IsSome(handles)
        /\ id \notin DOMAIN Get(handles).types
        /\ HookDestroy(id))
       => (handles' = handles /\ thrown' = thrown /\ phase' = phase)]_vars

\* C10's case: a destroy for an unregistered id has been delivered to a
\* tracker that holds counts.
C10_Witness ==
  /\ IsSome(handles)
  /\ hist.unknownDestroys >= 1
  /\ Len(Get(handles).counts) >= 1
  /\ DOMAIN Get(handles).types # {}

\* The count a snapshot shows for type t, 0 when the type is not in it.
Reported(snap, t) ==
  IF \E i \in 1..Len(snap.titles) : snap.titles[i] = t
  THEN snap.data[CHOOSE i \in 1..Len(snap.titles) : snap.titles[i] = t]
  ELSE 0

\* C11: a snapshot against the raw counts.  A reserved type (Timeout,
\* ELDHISTOGRAM, UDPWRAP) with raw count c is reported as c - 1 when that is
\* positive and left out otherwise; any other type with raw count c > 0 is
\* reported as exactly c; no type without a raw count is reported, and each
\* reported type appears once, in the order of the raw counts.
C11_SnapshotFromRawCounts ==
  IsSome(handles) =>
    LET tr == Get(handles)
        snap == TrackerCounts(tr)
        expected(e) == IF e.k \in {"Timeout", "ELDHISTOGRAM", "UDPWRAP"}
                       THEN e.v - 1 ELSE e.v
        shown == SelectSeq(tr.counts, LAMBDA e : expected(e) > 0)
    IN /\ Len(snap.titles) = Len(snap.data)
       /\ Len(snap.titles) = Len(shown)
       /\ \A i \in 1..Len(shown) :
            /\ snap.titles[i] = shown[i].k
            /\ snap.data[i] = expected(shown[i])
       /\ \A i \in 1..Len(tr.counts) :
            Reported(snap, tr.counts[i].k) =
              (IF expected(tr.counts[i]) > 0 THEN expected(tr.counts[i])
               ELSE 0)
       /\ \A i \in 1..Len(snap.titles) : CountsHas(tr.counts, snap.titles[i])

\* C11's case: a reserved type with raw count 2 next to another type with
\* raw count 1; the snapshot shows 1 for each.
C11_Witness ==
  /\ IsSome(handles)
  /\ CountsHas(Get(handles).counts, "Timeout")
  /\ CountsGet(Get(handles).counts, "Timeout") = 2
  /\ CountsHas(Get(handles).counts, "TCPWRAP")
  /\ Reported(TrackerCounts(Get(handles)), "Timeout") = 1
  /\ Reported(TrackerCounts(Get(handles)), "TCPWRAP") = 1

\* C12: after any sequence of create and destroy events, destroys of ids
\* that are not registered and creates of an id that is still registered
\* included, every stored count is positive, and every snapshot, the one a
\* Sample would take now and those in published Samples, holds positive
\* counts only.
C12_CountsStayPositive ==
  /\ IsSome(handles) =>
       /\ \A i \in 1..Len(Get(handles).counts) : Get(handles).counts[i].v > 0
       /\ \A i \in 1..Len(TrackerCounts(Get(handles)).data) :
            TrackerCounts(Get(handles)).data[i] > 0
  /\ \A i \in Samples :
       IsSome(published[i].handles) =>
         \A j \in 1..Len(Get(published[i].handles).data) :
           Get(published[i].handles).data[j] > 0

\* C12's case: an id was announced again while registered and destroyed
\* after that, which removes the count of its last type and leaves one
\* count behind with no id registered; a published Sample shows that count.
C12_Witness ==
  /\ IsSome(handles)
  /\ hist.reused
  /\ hist.events = 3
  /\ hist.gcEvents = 0
  /\ Len(Get(handles).counts) = 1
  /\ DOMAIN Get(handles).types = {}
  /\ \E i \in Samples :
       /\ IsSome(published[i].handles)
       /\ Get(published[i].handles) = TrackerCounts(Get(handles))

\* C13: once the Monitor is stopped, which calls the tracker's destroy(), no
\* create or destroy notification reaches the tracker: its id-to-type map
\* and its counts stay exactly as they were at the stop.
C13_NoEventsAfterTrackerDestroy ==
  [][(phase = "stopped" /\ IsSome(handles)) => handles' = handles]_vars

\* C13's case: a Monitor stopped while its tracker holds registered ids and
\* counts, with resource events still to come.
C13_Witness ==
  /\ phase = "stopped"
  /\ IsSome(handles)
  /\ ~Get(handles).enabled
  /\ DOMAIN Get(handles).types # {}
  /\ Len(Get(handles).counts) >= 1
  /\ hist.events < MaxEvents

GCCounters == {"scavenges", "sweeps", "incremental", "weakcbs"}

\* The published Samples that carry GC activity.
GCSamples == {i \in Samples : IsSome(published[i].gc)}

\* C14: the GC counters are cumulative.  Each of the four phase counters in
\* a later Sample is at least its value in every earlier Sample, and no
\* counter of the tracker is below its value in a published Sample: sampling
\* neither resets nor decreases them.
C14_GCCountersCumulative ==
  /\ \A i, j \in GCSamples :
       i < j => \A c \in GCCounters :
                  Get(published[i].gc)[c] <= Get(published[j].gc)[c]
  /\ \A i \in GCSamples :
       /\ IsSome(gc)
       /\ \A c \in GCCounters : Get(published[i].gc)[c] <= Get(gc)[c]

\* C14's case: two Samples with GC events of two phases between them and
\* one before the first.
C14_Witness ==
  \E i, j \in GCSamples :
    /\ i < j
    /\ Get(published[i].gc).scavenges + Get(published[i].gc).sweeps = 1
    /\ Get(published[j].gc).scavenges >= 1
    /\ Get(published[j].gc).sweeps >= 1
    /\ Get(published[j].gc).scavenges + Get(published[j].gc).sweeps = 3

\* C15: every GC notification records its duration and increments exactly
\* one of the four counters by exactly one, so the four counters add up to
\* the number of notifications received, which is also the number of
\* durations recorded.
C15_OneCounterPerNotification ==
  IsSome(gc) =>
    /\ Len(Get(gc).duration) = hist.gcEvents
    /\ Get(gc).scavenges + Get(gc).sweeps + Get(gc).incremental
         + Get(gc).weakcbs = hist.gcEvents

\* C16: stopping stops every observer.  Once the Monitor is Stopped the
\* scheduler-delay observer is disabled, the tracker is unsubscribed, the
\* timer is cancelled and the GC observer, if there is one, is no longer
\* subscribed: no observer's state changes after the stop.
C16_StopStopsEveryObserver ==
  [][phase = "stopped" =>
       /\ timer = None
       /\ IsSome(elmonitor) => ~Get(elmonitor).enabled
       /\ IsSome(handles) => ~Get(handles).enabled
       /\ timer' = timer
       /\ elmonitor' = elmonitor
       /\ handles' = handles
       /\ gc' = gc]_vars

\* The sample rate in effect: the explicit option, or the module's default
\* (NOTARE_HZ, or 2) when the argument has none.
EffectiveHz ==
  IF HasExplicitHz THEN Get(hist.arg).hz ELSE kDefaultMonitorOptions.hz

\* C18: whenever a Monitor is Running, the sample rate in effect is an
\* integer in [1,1000] and the period of the armed timer is
\* floor(1000 / rate) milliseconds, which lies in [1,1000].
C18_RunningRateAndPeriod ==
  phase = "running" =>
    /\ ValidHz(EffectiveHz)
    /\ IsSome(timer)
    /\ Get(timer).delay = FloorDiv(2000, EffectiveHz.x2)
    /\ Get(timer).delay \in 1..1000

\* C19: taking a resource snapshot is a pure read that returns a copy.  A
\* step that publishes a Sample with a snapshot leaves the tracker's
\* id-to-type map and raw counts as they were (nothing taken off a reserved
\* type is stored), so that a second snapshot taken right after it, with no
\* create or destroy event between, equals the one published; and no step,
\* resource events included, alters a Sample that is already published.
C19_SnapshotIsPureRead ==
  [][/\ Len(published') >= Len(published)
     /\ \A i \in 1..Len(published) : published'[i] = published[i]
     /\ (/\ IsSome(handles)
         /\ Len(published') = Len(published) + 1
         /\ published'[Len(published')].kind = "sample")
        => /\ handles' = handles
           /\ published'[Len(published')].handles
                = Some(TrackerCounts(Get(handles')))]_vars

\* C19's case: two Samples taken with no event between them show the same
\* snapshot, with one taken off a reserved type, and an event after them
\* has changed what the tracker would show now.
C19_Witness ==
  /\ IsSome(handles)
  /\ \E i, j \in Samples :
       /\ i < j
       /\ IsSome(published[i].handles)
       /\ published[i].handles = published[j].handles
       /\ Reported(Get(published[i].handles), "Timeout") = 1
       /\ Get(published[j].handles) # TrackerCounts(Get(handles))
  /\ CountsHas(Get(handles).counts, "Timeout")
  /\ CountsGet(Get(handles).counts, "Timeout") = 2

\* C20: self-filtering is exact.  The tracker subscribes after the
\* Monitor's timer and scheduler-delay instrumentation exist, so every id
\* announced to it belongs to the application; in every Sample taken with
\* resource tracking enabled, the count reported for each type is the
\* number of live ids of that type announced since the tracker subscribed
\* (ids being unique), and no application resource is left out.
C20_SelfFilteringExact ==
  [][(/\ IsSome(handles)
      /\ ~hist.reused
      /\ Len(published') = Len(published) + 1
      /\ published'[Len(published')].kind = "sample")
     => /\ IsSome(published'[Len(published')].handles)
        /\ \A t \in Types :
             Reported(Get(published'[Len(published')].handles), t)
               = Cardinality(LiveOfType(t))]_vars

\* C21: ref() and unref() can be called in every lifecycle state of a
\* constructed Monitor, after it has been stopped included, without raising
\* an error; they change only whether the timer holds the process open and
\* leave the timer's period, the checkpoints, the observers and the
\* published stream as they were.
C21_RefUnrefAlwaysCallable ==
  [][(Ref \/ Unref) =>
       /\ thrown' = thrown
       /\ IsSome(timer') = IsSome(timer)
       /\ IsSome(timer) => Get(timer').delay = Get(timer).delay
       /\ UNCHANGED <<phase, options, elmonitor, lastTS, lastCPUUsage,
                      handles, gc, stream, published>>]_vars

====
